---- MODULE Spec2Model ----
(***************************************************************************)
(* rc-check: the reconciliation of a scraped snapshot of vehicle           *)
(* configurations into the rc_check table (one CheckState row per URL) and *)
(* the rc_check_history table (HistoryEntry rows keyed by url and          *)
(* modified_time), as done by task() and insert_previous_history_record()  *)
(* of main.py.                                                             *)
(*                                                                         *)
(* Timestamps are integers; datetime.now() is a clock that yields a value  *)
(* larger than every value it yielded before.  The configurations column   *)
(* is JSONB holding a list of objects with string values: what is read     *)
(* back compares equal (==) to what was written, so a stored snapshot is   *)
(* kept as the sequence of records that was written.                       *)
(***************************************************************************)
EXTENDS Integers, Sequences, FiniteSets, TLC

\* ------------------------------------------------------------------ bounds
MaxTime == 4
MaxCrashes == 1
MaxCrashPoint == 2
MaxLen == 2
MaxPolls == 2
MaxTasks == 3
MaxText == 4

\* --------------------------------------------------------------- constants
CONST_INCOMPLETE == "Incomplete"
CONST_CREATE_ACTION == "create"
CONST_UPDATE_ACTION == "update"
\* "while configurations is None and reload_counter < 3"
MaxReloads == 3
\* "ThreadPoolExecutor(max_workers=4)"
MaxWorkers == 4

URLs == {"u1", "u2"}

\* urls_to_check[number]["url_description"]
url_description_of(url) == IF url = "u1" THEN "first" ELSE "second"

\* The keys of the dict returned by get_config_data.
ConfigKeys == {"Vehicle", "MotorBattery", "Price", "Wheels", "Interior", "Exterior", "Packages"}

Config(v, m, p, w, i, e, k) ==
    [Vehicle |-> v, MotorBattery |-> m, Price |-> p, Wheels |-> w,
     Interior |-> i, Exterior |-> e, Packages |-> k]

CfgA == Config("R1S", "Dual", "$74,000", "20in", "Black", "Blue", "Launch")
CfgB == Config("R1S", "Dual", "$75,000", "20in", "Black", "Blue", "Launch")
\* CfgA as rendered on a pass that exposed the headline fields only
CfgAPartial == Config("R1S", "Dual", "$74,000", CONST_INCOMPLETE, CONST_INCOMPLETE,
                      CONST_INCOMPLETE, CONST_INCOMPLETE)

\* The snapshots a poll can hand to the reconciliation.
Snapshots == { <<>>, <<CfgA>>, <<CfgB>>, <<CfgAPartial>> }

\* ------------------------------------------------------------------- state
VARIABLES
    check,        \* rc_check: url -> row, or NoRecord
    history,      \* rc_check_history: set of rows, (url, modified_time) unique
    now,          \* the last value datetime.now() returned
    crashes,      \* number of tasks that were stopped between two writes
    last,         \* the task that ran last: url, snapshot, time, result
    prevCheck,    \* rc_check as it was when that task started
    prevHistory,  \* rc_check_history as it was when that task started
    outcome,      \* url -> result of the latest task for that url
    held,         \* (url, modified_time) pairs a CheckState held around a task
    changes,      \* url -> number of completed 'changed' reconciliations
    fn,           \* the change detector applied to a pair of snapshots
    slack_hook_url,   \* whether SLACK_HOOK_URL is set
    noisy_messages,   \* NOISY_MESSAGES
    posted,       \* the messages the last task handed to post_message
    polls,        \* number of tasks run
    debug,        \* whether DEBUG is "true"
    runs,         \* per process: the run of handler and its tasks
    parsed        \* get_config_data applied to the text of an article

vars == <<check, history, now, crashes, last, prevCheck, prevHistory, outcome, held, changes, fn, slack_hook_url, noisy_messages, posted, polls, debug, runs, parsed>>

NoRecord == [exists |-> FALSE]

CheckRow(url, url_description, created_time, modified_time, last_checked_time, configurations) ==
    [exists |-> TRUE, url |-> url, url_description |-> url_description,
     created_time |-> created_time, modified_time |-> modified_time,
     last_checked_time |-> last_checked_time, configurations |-> configurations]

HistoryRow(url, modified_time, modified_action, url_description, configurations) ==
    [url |-> url, modified_time |-> modified_time, modified_action |-> modified_action,
     url_description |-> url_description, configurations |-> configurations]

\* history_exists whose select filters on modified_time only.
history_exists_any_url(hist, url, modified_time) ==
    \E h \in hist : h.modified_time = modified_time

\* RcCheckHistoryModel.select().where(url == .. & modified_time == ..).exists()
history_exists(hist, url, modified_time) ==
    \E h \in hist : h.url = url /\ h.modified_time = modified_time

\* ---------------------------------------------------------- pure functions
\* '"Incomplete"' in json.dumps(configurations): some string value of some
\* object of the list is exactly Incomplete (no key is).
has_incomplete_configuration(configurations) ==
    \E i \in 1..Len(configurations) :
        \E k \in ConfigKeys : configurations[i][k] = CONST_INCOMPLETE

\* is_match_configurations with the tolerance of its docstring: the headline
\* fields alone are compared when either snapshot has an Incomplete value.
is_match_configurations_two_sided(new, current) ==
    IF Len(new) # Len(current) THEN FALSE
    ELSE IF has_incomplete_configuration(new) \/ has_incomplete_configuration(current)
    THEN \A index \in 1..Len(new) :
            /\ new[index].Vehicle = current[index].Vehicle
            /\ new[index].MotorBattery = current[index].MotorBattery
            /\ new[index].Price = current[index].Price
    ELSE new = current

\* is_match_configurations whose tolerant loop returns after the first entry.
is_match_configurations_first_only(new, current) ==
    IF Len(new) # Len(current) THEN FALSE
    ELSE IF has_incomplete_configuration(new) /\ ~has_incomplete_configuration(current)
    THEN Len(new) = 0
         \/ /\ new[1].Vehicle = current[1].Vehicle
            /\ new[1].MotorBattery = current[1].MotorBattery
            /\ new[1].Price = current[1].Price
    ELSE new = current

is_match_configurations(new, current) ==
    IF Len(new) # Len(current) THEN FALSE
    ELSE IF has_incomplete_configuration(new) /\ ~has_incomplete_configuration(current)
    THEN \A index \in 1..Len(new) :
            ~ (\/ new[index].Vehicle # current[index].Vehicle
               \/ new[index].MotorBattery # current[index].MotorBattery
               \/ new[index].Price # current[index].Price)
    ELSE new = current

\* ------------------------------------------------------------- the parser
\* The text of an article, as a sequence of pieces none of which holds a match
\* of [a-z][A-Z0-9\$] inside: a lowercase word, "hp", an uppercase letter, a
\* digit, "$", a blank, and "+More".
Pieces == {"a", "hp", "A", "1", "$", " ", "+More"}
EndsLower(piece) == piece \in {"a", "hp", "+More"}
StartsUpperDigitDollar(piece) == piece \in {"A", "1", "$"}

\* re.search(pattern, config).start() + 1: the length of the prefix that ends
\* with the lowercase character of the first match; 0 when there is no match.
search(config) ==
    LET matches == { i \in 1..(Len(config) - 1) :
                        EndsLower(config[i]) /\ StartsUpperDigitDollar(config[i + 1]) }
    IN  IF matches = {} THEN 0
        ELSE CHOOSE i \in matches : \A j \in matches : i <= j

\* re.sub(r"(\d\+)More", r"\g<1> additional Packages", config)
sub_More(config) ==
    [i \in 1..Len(config) |->
        IF config[i] = "+More" /\ i > 1 /\ config[IF i > 1 THEN i - 1 ELSE 1] = "1"
        THEN "+ additional Packages" ELSE config[i]]

\* The while loop of get_config_data and the append after it.
RECURSIVE split(_, _, _, _)
split(config, configs, wheels_index, index) ==
    LET position == search(config)
    IN  IF position = 0
        THEN [configs |-> Append(configs, sub_More(config)),
              wheels_index |-> wheels_index]
        ELSE split(SubSeq(config, position + 1, Len(config)),
                   Append(configs, SubSeq(config, 1, position)),
                   IF config[position] = "hp" THEN index + 1 ELSE wheels_index,
                   index + 1)

\* ", ".join(list)
RECURSIVE join(_)
join(list) ==
    IF Len(list) = 0 THEN <<>>
    ELSE IF Len(list) = 1 THEN list[1]
    ELSE list[1] \o <<", ">> \o join(Tail(list))

\* What a call gives: an exception, None, or a dict.
Raised == [raised |-> TRUE, none |-> FALSE, value |-> <<>>]
ReturnedNone == [raised |-> FALSE, none |-> TRUE, value |-> <<>>]
Returned(value) == [raised |-> FALSE, none |-> FALSE, value |-> value]

\* get_config_data. configs is indexed from 0 in the source: configs[k] there
\* is configs[k + 1] here, and an index past the end raises IndexError.
get_config_data(config) ==
    LET parts == split(config, <<>>, 0, 0)
        configs == parts.configs
        wheels_index == parts.wheels_index
    IN  IF Len(configs) = 0 THEN ReturnedNone
        ELSE IF Len(configs) < 3 THEN Raised
        ELSE IF wheels_index > 0 /\ Len(configs) < wheels_index + 3 THEN Raised
        ELSE Returned(
               [Vehicle |-> configs[1],
                MotorBattery |-> configs[2],
                Price |-> configs[3],
                Wheels |-> IF wheels_index > 0 THEN configs[wheels_index + 1]
                           ELSE <<CONST_INCOMPLETE>>,
                Interior |-> IF wheels_index > 0 THEN configs[wheels_index + 2]
                             ELSE <<CONST_INCOMPLETE>>,
                Exterior |-> IF wheels_index > 0 THEN configs[wheels_index + 3]
                             ELSE <<CONST_INCOMPLETE>>,
                Packages |-> IF wheels_index > 0
                             THEN join(SubSeq(configs, wheels_index + 4, Len(configs)))
                             ELSE join(<< <<CONST_INCOMPLETE>> >>)])

\* task, "configurations.append(get_config_data(element.text_content()))":
\* what is returned is appended, None included.
append_config_data(configurations, config) ==
    LET data == get_config_data(config)
    IN  IF data.raised THEN [raised |-> TRUE, configurations |-> configurations]
        ELSE [raised |-> FALSE, configurations |-> Append(configurations, data)]

\* get_config_data was not called.
NoParse == [config |-> <<>>, done |-> FALSE, data |-> ReturnedNone, raised |-> FALSE, configurations |-> <<>>]

\* ------------------------------------------------------------ store writes
\* A task works on st = [check, history, status, left, conflicts]: the two
\* tables, the number of inserts that hit a taken history key, whether
\* the task is still running ("run"), was ended by an exception the store
\* raised ("error") or was stopped between two writes ("crash"), and the
\* number of writes it still gets to make (-1: as many as it asks for).
\* Every statement is committed on its own: main.py opens no transaction.
Begin(chk, hist, left) ==
    [check |-> chk, history |-> hist, status |-> "run", left |-> left, conflicts |-> 0]

Spend(st) == [st EXCEPT !.left = IF @ > 0 THEN @ - 1 ELSE @]

\* RcCheckModel.create(...) followed by save(): INSERT of the row, then an
\* UPDATE that rewrites the same values.
RcCheckModel_create(st, row) ==
    IF st.status # "run" THEN st
    ELSE IF st.left = 0 THEN [st EXCEPT !.status = "crash"]
    ELSE IF st.check[row.url] # NoRecord THEN [st EXCEPT !.status = "error"]
    ELSE Spend([st EXCEPT !.check[row.url] = row])

\* existing_record.save(): UPDATE of every column WHERE url = row.url
RcCheckModel_save(st, row) ==
    IF st.status # "run" THEN st
    ELSE IF st.left = 0 THEN [st EXCEPT !.status = "crash"]
    ELSE Spend([st EXCEPT !.check[row.url] = row])

\* RcCheckHistoryModel.create that keeps one entry per url: the insert
\* replaces the entries the url had.
RcCheckHistoryModel_create_latest_only(st, row) ==
    IF st.status # "run" THEN st
    ELSE IF st.left = 0 THEN [st EXCEPT !.status = "crash"]
    ELSE Spend([st EXCEPT !.history = { h \in @ : h.url # row.url } \cup {row}])

\* RcCheckHistoryModel.create(...) followed by save(): INSERT, which raises
\* IntegrityError when the composite key (url, modified_time) is taken.
RcCheckHistoryModel_create(st, row) ==
    IF st.status # "run" THEN st
    ELSE IF st.left = 0 THEN [st EXCEPT !.status = "crash"]
    ELSE IF history_exists(st.history, row.url, row.modified_time)
    THEN [st EXCEPT !.status = "error", !.conflicts = @ + 1]
    ELSE Spend([st EXCEPT !.history = @ \cup {row}])

\* ------------------------------------------------------------ reconciliation
insert_previous_history_record(st, url, url_description, configurations, current_time, existing_record) ==
    IF st.status # "run" THEN st
    ELSE IF history_exists(st.history, existing_record.url, existing_record.modified_time)
    THEN st
    ELSE LET never_updated == existing_record.modified_time = existing_record.created_time
             modified_time == IF never_updated THEN existing_record.created_time
                              ELSE current_time
             modified_action == IF never_updated THEN CONST_CREATE_ACTION
                                ELSE CONST_UPDATE_ACTION
         IN  RcCheckHistoryModel_create(st,
                 HistoryRow(url, modified_time, modified_action, url_description,
                            configurations))

\* create_records that writes the CheckState and no HistoryEntry.
create_records_without_history(st, url, url_description, configurations, current_time) ==
    RcCheckModel_create(st,
        CheckRow(url, url_description, current_time, current_time, current_time,
                 configurations))

\* task, "if not record.exists()"
create_records(st, url, url_description, configurations, current_time) ==
    LET st1 == RcCheckModel_create(st,
                   CheckRow(url, url_description, current_time, current_time,
                            current_time, configurations))
    IN  RcCheckHistoryModel_create(st1,
            HistoryRow(url, current_time, CONST_CREATE_ACTION, url_description,
                       configurations))

\* update_last_checked that also stores the snapshot of this poll.
update_last_checked_and_configurations(st, url, url_description, configurations, current_time, existing_record) ==
    LET touched == [existing_record EXCEPT !.last_checked_time = current_time,
                                           !.configurations = configurations]
        st1 == RcCheckModel_save(st, touched)
    IN  insert_previous_history_record(st1, url, url_description, configurations,
                                       current_time, touched)

\* task, "No changes; updating last checked time only."
update_last_checked(st, url, url_description, configurations, current_time, existing_record) ==
    LET touched == [existing_record EXCEPT !.last_checked_time = current_time]
        st1 == RcCheckModel_save(st, touched)
    IN  insert_previous_history_record(st1, url, url_description, configurations,
                                       current_time, touched)

\* update_all that saves the times and leaves the stored configurations.
update_all_keeping_configurations(st, url, url_description, configurations, current_time, existing_record) ==
    LET st1 == insert_previous_history_record(st, url, url_description,
                   configurations, current_time, existing_record)
        st2 == RcCheckModel_save(st1,
                   [existing_record EXCEPT !.modified_time = current_time,
                                           !.last_checked_time = current_time])
    IN  RcCheckHistoryModel_create(st2,
            HistoryRow(url, current_time, CONST_UPDATE_ACTION, url_description,
                       configurations))

\* update_all that leaves modified_time as it was.
update_all_keeping_modified_time(st, url, url_description, configurations, current_time, existing_record) ==
    LET st1 == insert_previous_history_record(st, url, url_description,
                   configurations, current_time, existing_record)
        st2 == RcCheckModel_save(st1,
                   [existing_record EXCEPT !.last_checked_time = current_time,
                                           !.configurations = configurations])
    IN  RcCheckHistoryModel_create(st2,
            HistoryRow(url, current_time, CONST_UPDATE_ACTION, url_description,
                       configurations))

\* task, "There were changes to configurations; updating all."
update_all(st, url, url_description, configurations, current_time, existing_record) ==
    LET st1 == insert_previous_history_record(st, url, url_description,
                   configurations, current_time, existing_record)
        st2 == RcCheckModel_save(st1,
                   [existing_record EXCEPT !.modified_time = current_time,
                                           !.last_checked_time = current_time,
                                           !.configurations = configurations])
    IN  RcCheckHistoryModel_create(st2,
            HistoryRow(url, current_time, CONST_UPDATE_ACTION, url_description,
                       configurations))

\* The branch task takes for a rendered snapshot: "created", "unchanged" or
\* "changed".
branch(chk, url, configurations) ==
    IF chk[url] = NoRecord THEN "created"
    ELSE IF is_match_configurations(configurations, chk[url].configurations)
    THEN "unchanged"
    ELSE "changed"

\* task from "record = RcCheckModel.select()..." on: the store after it.
reconcile(st, url, url_description, configurations, current_time) ==
    LET b == branch(st.check, url, configurations)
    IN  IF b = "created"
        THEN create_records(st, url, url_description, configurations, current_time)
        ELSE IF b = "unchanged"
        THEN update_last_checked(st, url, url_description, configurations,
                                 current_time, st.check[url])
        ELSE update_all(st, url, url_description, configurations, current_time,
                        st.check[url])

\* What the task ended as: its branch when it ran to its end, "error" when an
\* exception of the store ended it, "crashed" when it was stopped.
result_of(st, b) ==
    IF st.status = "run" THEN b
    ELSE IF st.status = "error" THEN "error" ELSE "crashed"

\* ----------------------------------------------------- rendering, messages
\* configurations = None, and a list of configurations.
None == [none |-> TRUE]
Some(configurations) == [none |-> FALSE, value |-> configurations]

\* What the page shows at one extraction: whether the text "No exact matches"
\* is there, and the configurations of its ShopVehicleLink elements.
Page(no_matches, articles) == [no_matches |-> no_matches, articles |-> articles]
NothingRendered == Page(FALSE, <<>>)
NoExactMatches == Page(TRUE, <<>>)

\* The page a snapshot was read from: it shows the same at every extraction.
PageOf(configurations) == Page(configurations = <<>>, configurations)
Stable(page) == [n \in 1..MaxReloads |-> page]

\* One pass of the reload loop over the page: the "No exact matches" text
\* gives the empty list, ShopVehicleLink elements give their configurations,
\* neither leaves configurations as it was.
extract_without_no_matches(page, configurations) ==
    IF Len(page.articles) > 0 THEN Some(page.articles) ELSE configurations

extract(page, configurations) ==
    LET after_span == IF page.no_matches THEN Some(<<>>) ELSE configurations
    IN  IF Len(page.articles) > 0 THEN Some(page.articles) ELSE after_span

\* The reload loop of task. The page is reloaded once per pass that ends with
\* reload_counter incremented, so pass number reload_counter + 1 reads
\* pages[reload_counter + 1]; extracted holds what each pass left in
\* configurations.
RECURSIVE render_loop(_, _, _, _)
render_loop(pages, configurations, reload_counter, extracted) ==
    IF ~(configurations.none /\ reload_counter < MaxReloads)
    THEN [configurations |-> configurations, extracted |-> extracted,
          reload_counter |-> reload_counter]
    ELSE LET after_articles == extract(pages[reload_counter + 1], configurations)
             reload == IF after_articles.none THEN TRUE
                       ELSE has_incomplete_configuration(after_articles.value)
         IN  render_loop(pages, after_articles,
                         IF reload THEN reload_counter + 1 ELSE reload_counter,
                         Append(extracted, after_articles))

\* prepare_and_post_message_to_slack: nothing without a hook url; "for config
\* in configurations" raises TypeError when configurations is None; else the
\* message goes to post_message, which catches what urlopen raises.
prepare_and_post_message_to_slack(status_code, configurations, url) ==
    IF ~url THEN [raised |-> FALSE, messages |-> <<>>]
    ELSE IF configurations.none THEN [raised |-> TRUE, messages |-> <<>>]
    ELSE [raised |-> FALSE,
          messages |-> << [status_code |-> status_code,
                           configurations |-> configurations] >>]

NotPosted == [raised |-> FALSE, messages |-> <<>>]

\* notification that posts for an unchanged snapshot whatever noisy_messages is.
notification_without_noisy_check(result, configurations) ==
    IF result = "created"
    THEN IF Len(configurations) > 0 \/ noisy_messages
         THEN prepare_and_post_message_to_slack(201, Some(configurations), slack_hook_url)
         ELSE NotPosted
    ELSE IF result \in {"unchanged", "changed"}
    THEN prepare_and_post_message_to_slack(200, Some(configurations), slack_hook_url)
    ELSE NotPosted

\* The message of a task that reached the reconciliation and ended as result.
notification(result, configurations) ==
    IF result = "created"
    THEN IF Len(configurations) > 0 \/ noisy_messages
         THEN prepare_and_post_message_to_slack(201, Some(configurations), slack_hook_url)
         ELSE NotPosted
    ELSE IF result = "unchanged"
    THEN IF noisy_messages
         THEN prepare_and_post_message_to_slack(200, Some(configurations), slack_hook_url)
         ELSE NotPosted
    ELSE IF result = "changed"
    THEN prepare_and_post_message_to_slack(200, Some(configurations), slack_hook_url)
    ELSE NotPosted

\* executor.map(task, ...) in handler: the iterator it returns is never read,
\* so an exception that ended a task stays in its future; nothing is raised
\* to the caller of handler.
executor_map(raised) == FALSE

\* ----------------------------------------------------------------- actions
\* A CheckState written before history tracking existed: created at time 0,
\* never updated (modified_time = created_time) or updated at time 1, and
\* without any HistoryEntry.
LegacyRows(url) ==
    { CheckRow(url, url_description_of(url), 0, modified_time, modified_time,
               configurations) :
        modified_time \in 0..1, configurations \in Snapshots }

\* No pair of snapshots was compared.
NoCall ==
    [new |-> <<>>, current |-> <<>>, done |-> FALSE, match |-> FALSE,
     new_incomplete |-> FALSE, current_incomplete |-> FALSE]

\* The processes that run this module as __main__: the one that was started
\* and, with debug, the one the reloader of app.run starts from it.
Processes == {"started", "reloaded"}

\* A process whose scheduler has not fired: urls_to_check = [], no task.
NoRun == [running |-> FALSE, urls_to_check |-> <<>>, todo |-> {}, tasks |-> {}]
NoRuns == [process \in Processes |-> NoRun]

NoTask ==
    [url |-> "none", configurations |-> <<>>, current_time |-> 0,
     result |-> "none", prior |-> "none", extracted |-> <<>>, shown |-> <<>>,
     render_incomplete |-> FALSE, reconciled |-> FALSE,
     conflicts |-> 0, raised |-> FALSE, surfaced |-> FALSE]

\* The tables and the history of tasks before the first task.
InitStore(rows) ==
    /\ check \in [URLs -> {NoRecord} \cup rows]
    /\ \A url \in URLs : IF check[url] = NoRecord THEN TRUE ELSE check[url].url = url
    /\ history = {}
    /\ now = 1
    /\ crashes = 0
    /\ last = NoTask
    /\ prevCheck = check
    /\ prevHistory = {}
    /\ outcome = [url \in URLs |-> "none"]
    /\ held = {}
    /\ changes = [url \in URLs |-> 0]
    /\ fn = NoCall
    /\ posted = <<>>
    /\ polls = 0
    /\ runs = NoRuns
    /\ parsed = NoParse

Init ==
    /\ InitStore(UNION { LegacyRows(url) : url \in URLs })
    /\ slack_hook_url = TRUE
    /\ noisy_messages = FALSE
    /\ debug = FALSE

\* The modified_time values the CheckState of url holds in chk.
HeldBy(chk, url) ==
    IF chk[url] = NoRecord THEN {} ELSE { <<url, chk[url].modified_time>> }

\* The tables after a task that reached the reconciliation, the message it
\* sent, and the record of what it was.
Finish(url, configurations, seen, current_time, b, st) ==
    LET result == result_of(st, b)
        message == notification(result, configurations)
        raised == st.status = "error" \/ message.raised
    IN  /\ check' = st.check
        /\ history' = st.history
        /\ now' = current_time
        /\ last' = [url |-> url, configurations |-> configurations,
                    current_time |-> current_time, result |-> result,
                    prior |-> outcome[url], extracted |-> seen.extracted,
                    shown |-> seen.shown,
                    render_incomplete |-> seen.render_incomplete,
                    reconciled |-> TRUE, conflicts |-> st.conflicts,
                    raised |-> raised, surfaced |-> executor_map(raised)]
        /\ prevCheck' = check
        /\ prevHistory' = history
        /\ outcome' = [outcome EXCEPT ![url] = result]
        /\ held' = IF result = "crashed" THEN held
                   ELSE held \cup HeldBy(check, url) \cup HeldBy(st.check, url)
        /\ changes' = [changes EXCEPT ![url] = IF result = "changed" THEN @ + 1 ELSE @]
        /\ posted' = message.messages
        /\ polls' = polls + 1

\* task, "if configurations is None": the page could not be rendered. Status
\* 500 is posted with configurations=None; neither table is read or written.
Fail(url, seen) ==
    LET message == prepare_and_post_message_to_slack(500, None, slack_hook_url)
    IN  /\ last' = [url |-> url, configurations |-> <<>>, current_time |-> now,
                    result |-> "failed", prior |-> outcome[url],
                    extracted |-> seen.extracted,
                    shown |-> seen.shown,
                    render_incomplete |-> seen.render_incomplete,
                    reconciled |-> FALSE, conflicts |-> 0,
                    raised |-> message.raised,
                    surfaced |-> executor_map(message.raised)]
        /\ prevCheck' = check
        /\ prevHistory' = history
        /\ outcome' = [outcome EXCEPT ![url] = "failed"]
        /\ posted' = message.messages
        /\ polls' = polls + 1
        /\ UNCHANGED <<check, history, now, held, changes>>

\* A page that shows nothing, or articles with a configuration that lacks
\* its details.
RenderIncomplete(page) ==
    IF Len(page.articles) > 0 THEN has_incomplete_configuration(page.articles)
    ELSE ~page.no_matches

\* task(number) on a page that shows pages[n] at its n-th extraction, allowed
\* `left` writes (-1: all it asks for).
run_task(url, pages, left) ==
    LET rendered == render_loop(pages, None, 0, <<>>)
        seen == [extracted |-> rendered.extracted,
                 shown |-> SubSeq(pages, 1, Len(rendered.extracted)),
                 render_incomplete |->
                     \A n \in 1..MaxReloads : RenderIncomplete(pages[n])]
        current_time == now + 1
    IN  IF rendered.configurations.none
        THEN Fail(url, seen)
        ELSE Finish(url, rendered.configurations.value, seen, current_time,
                    branch(check, url, rendered.configurations.value),
                    reconcile(Begin(check, history, left), url,
                              url_description_of(url),
                              rendered.configurations.value, current_time))

\* task(number) for a url whose page rendered as configurations: the
\* reconciliation, run to its end or to the exception that ends it, and the
\* Slack message after it.
task(url, configurations) ==
    /\ now < MaxTime
    /\ run_task(url, Stable(PageOf(configurations)), -1)
    /\ UNCHANGED <<crashes, fn, parsed, slack_hook_url, noisy_messages, debug, runs>>

\* The same task when the process is stopped after `writes` of its writes.
task_stopped(url, configurations, writes) ==
    /\ now < MaxTime
    /\ crashes < MaxCrashes
    /\ reconcile(Begin(check, history, writes), url, url_description_of(url),
                 configurations, now + 1).status = "crash"
    /\ run_task(url, Stable(PageOf(configurations)), writes)
    /\ crashes' = crashes + 1
    /\ UNCHANGED <<fn, parsed, slack_hook_url, noisy_messages, debug, runs>>

Next ==
    \E url \in URLs, configurations \in Snapshots : task(url, configurations)

Spec == Init /\ [][Next]_vars

NextCrash ==
    \/ \E url \in URLs, configurations \in Snapshots : task(url, configurations)
    \/ \E url \in URLs, configurations \in Snapshots, writes \in 0..MaxCrashPoint :
          task_stopped(url, configurations, writes)

SpecCrash == Init /\ [][NextCrash]_vars

\* --------------------------------------------------------------- the poll
\* What a page can show at one extraction.
PageStates ==
    { NothingRendered, NoExactMatches, Page(FALSE, <<CfgA>>),
      Page(TRUE, <<CfgA>>), Page(FALSE, <<CfgAPartial>>) }

\* Rows the tables can hold when polling starts.
PollRows ==
    { CheckRow(url, url_description_of(url), 0, 0, 0, <<>>) : url \in URLs }
    \cup { CheckRow(url, url_description_of(url), 0, 1, 1, <<CfgA>>) : url \in URLs }

InitPoll ==
    /\ InitStore(PollRows)
    /\ slack_hook_url \in BOOLEAN
    /\ noisy_messages \in BOOLEAN
    /\ debug = FALSE

\* task(number) on any page.
task_page(url, pages) ==
    /\ now < MaxTime
    /\ polls < MaxPolls
    /\ run_task(url, pages, -1)
    /\ UNCHANGED <<crashes, fn, parsed, slack_hook_url, noisy_messages, debug, runs>>

NextPoll ==
    \E url \in URLs, pages \in [1..MaxReloads -> PageStates] : task_page(url, pages)

SpecPoll == InitPoll /\ [][NextPoll]_vars

\* ---------------------------------------------------------------- the runs
\* get_urls_from_db(): the rows of rc_check_urls, one per url (primary key).
get_urls_from_db == <<"u1", "u2">>

\* task from "record = RcCheckModel.select()..." on, when the row it read was
\* `record` and the tables are those of st when it writes.
reconcile_from(st, record, url, url_description, configurations, current_time) ==
    LET b == branch([st.check EXCEPT ![url] = record], url, configurations)
    IN  IF b = "created"
        THEN create_records(st, url, url_description, configurations, current_time)
        ELSE IF b = "unchanged"
        THEN update_last_checked(st, url, url_description, configurations,
                                 current_time, record)
        ELSE update_all(st, url, url_description, configurations, current_time,
                        record)

\* The reload loop on pages, and what it saw.
Rendering(pages) ==
    LET rendered == render_loop(pages, None, 0, <<>>)
    IN  [configurations |-> rendered.configurations,
         seen |-> [extracted |-> rendered.extracted,
                   shown |-> SubSeq(pages, 1, Len(rendered.extracted)),
                   render_incomplete |->
                       \A n \in 1..MaxReloads : RenderIncomplete(pages[n])]]

\* The process runs a scheduler: app_scheduler.start() comes before app.run,
\* so with debug both the started process and the one the reloader starts
\* from it have one.
HasScheduler(process) == process = "started" \/ debug

\* Tasks that have read their CheckState and not yet returned.
InFlight == UNION { runs[process].tasks : process \in Processes }

InitRuns ==
    /\ InitStore(PollRows)
    /\ slack_hook_url = TRUE
    /\ noisy_messages = FALSE
    /\ debug \in BOOLEAN

\* The interval job of a process fires and handler sets urls_to_check. The
\* job has the default max_instances=1: the scheduler skips the trigger while
\* the previous handler of this process has not returned.
handler_start(process) ==
    /\ HasScheduler(process)
    /\ ~runs[process].running
    /\ runs' = [runs EXCEPT ![process] =
                   [running |-> TRUE, urls_to_check |-> get_urls_from_db,
                    todo |-> 1..Len(get_urls_from_db), tasks |-> {}]]
    /\ UNCHANGED <<check, history, now, crashes, last, prevCheck, prevHistory, outcome, held, changes, fn, parsed, slack_hook_url, noisy_messages, posted, polls, debug>>

\* A worker thread takes task(number): it renders the page and, unless that
\* failed, reads the CheckState of its url.
task_start(process, number, page) ==
    /\ runs[process].running
    /\ number \in runs[process].todo
    /\ Cardinality(runs[process].tasks) < MaxWorkers
    /\ polls + Cardinality(InFlight) < MaxTasks
    /\ now + Cardinality(InFlight) < MaxTime
    /\ LET url == runs[process].urls_to_check[number]
           rendering == Rendering(Stable(page))
       IN  IF rendering.configurations.none
           THEN /\ Fail(url, rendering.seen)
                /\ runs' = [runs EXCEPT ![process].todo = @ \ {number}]
           ELSE /\ runs' = [runs EXCEPT ![process].todo = @ \ {number},
                                        ![process].tasks = @ \cup
                               { [process |-> process, number |-> number, url |-> url,
                                  configurations |-> rendering.configurations.value,
                                  seen |-> rendering.seen, record |-> check[url]] }]
                /\ UNCHANGED <<check, history, now, last, prevCheck, prevHistory, outcome, held, changes, posted, polls>>
    /\ UNCHANGED <<crashes, fn, parsed, slack_hook_url, noisy_messages, debug>>

\* The task writes what it decided from the row it read, posts its message
\* and returns.
task_finish(process, t) ==
    /\ t \in runs[process].tasks
    /\ LET current_time == now + 1
       IN  Finish(t.url, t.configurations, t.seen, current_time,
                  branch([check EXCEPT ![t.url] = t.record], t.url, t.configurations),
                  reconcile_from(Begin(check, history, -1), t.record, t.url,
                                 url_description_of(t.url), t.configurations,
                                 current_time))
    /\ runs' = [runs EXCEPT ![process].tasks = @ \ {t}]
    /\ UNCHANGED <<crashes, fn, parsed, slack_hook_url, noisy_messages, debug>>

\* The with block of handler ends when every task has returned.
handler_end(process) ==
    /\ runs[process].running
    /\ runs[process].todo = {}
    /\ runs[process].tasks = {}
    /\ runs' = [runs EXCEPT ![process].running = FALSE]
    /\ UNCHANGED <<check, history, now, crashes, last, prevCheck, prevHistory, outcome, held, changes, fn, parsed, slack_hook_url, noisy_messages, posted, polls, debug>>

NextRuns ==
    \/ \E process \in Processes : handler_start(process)
    \/ \E process \in Processes, number \in 1..Len(get_urls_from_db), page \in PageStates :
          task_start(process, number, page)
    \/ \E process \in Processes, t \in InFlight : task_finish(process, t)
    \/ \E process \in Processes : handler_end(process)

SpecRuns == InitRuns /\ [][NextRuns]_vars

\* ------------------------------------------------------ the change detector
\* Configurations get_config_data can return besides CfgA, CfgB, CfgAPartial:
\* CfgA with other wheels, CfgB and CfgA with fields the page did not expose,
\* and a page whose first fragment is the text "Incomplete".
CfgAWheels == Config("R1S", "Dual", "$74,000", "22in", "Black", "Blue", "Launch")
CfgBPartial == Config("R1S", "Dual", "$75,000", CONST_INCOMPLETE, CONST_INCOMPLETE, CONST_INCOMPLETE, CONST_INCOMPLETE)
CfgAPackages == Config("R1S", "Dual", "$74,000", "20in", "Black", "Blue", CONST_INCOMPLETE)
CfgNamed == Config("Incomplete", "Dual", "$74,000", "20in", "Black", "Blue", "Launch")
CfgNamedPartial == Config("Incomplete", "Dual", "$74,000", CONST_INCOMPLETE, CONST_INCOMPLETE, CONST_INCOMPLETE, CONST_INCOMPLETE)

Configurations ==
    { CfgA, CfgB, CfgAPartial, CfgAWheels, CfgBPartial, CfgAPackages, CfgNamed,
      CfgNamedPartial }

\* The lists of at most MaxLen configurations.
AllSnapshots == UNION { [1..n -> Configurations] : n \in 0..MaxLen }

InitMatch ==
    /\ check = [url \in URLs |-> NoRecord]
    /\ history = {}
    /\ now = 1
    /\ crashes = 0
    /\ last = NoTask
    /\ prevCheck = check
    /\ prevHistory = {}
    /\ outcome = [url \in URLs |-> "none"]
    /\ held = {}
    /\ changes = [url \in URLs |-> 0]
    /\ slack_hook_url = TRUE
    /\ noisy_messages = FALSE
    /\ posted = <<>>
    /\ polls = 0
    /\ debug = FALSE
    /\ runs = NoRuns
    /\ parsed = NoParse
    /\ \E new \in AllSnapshots, current \in AllSnapshots :
          fn = [NoCall EXCEPT !.new = new, !.current = current]

\* is_match_configurations(new=configurations, current=existing_record.configurations)
\* and has_incomplete_configuration of each of the two.
compare ==
    /\ ~fn.done
    /\ fn' = [fn EXCEPT !.done = TRUE,
                        !.match = is_match_configurations(fn.new, fn.current),
                        !.new_incomplete = has_incomplete_configuration(fn.new),
                        !.current_incomplete = has_incomplete_configuration(fn.current)]
    /\ UNCHANGED <<check, history, now, crashes, last, prevCheck, prevHistory, outcome, held, changes, slack_hook_url, noisy_messages, posted, polls, debug, runs, parsed>>

NextMatch == compare

SpecMatch == InitMatch /\ [][NextMatch]_vars

\* ------------------------------------------------------- the parser, run
\* The texts of at most MaxText pieces.
Texts == UNION { [1..n -> Pieces] : n \in 0..MaxText }

InitParse ==
    /\ check = [url \in URLs |-> NoRecord]
    /\ history = {}
    /\ now = 1
    /\ crashes = 0
    /\ last = NoTask
    /\ prevCheck = check
    /\ prevHistory = {}
    /\ outcome = [url \in URLs |-> "none"]
    /\ held = {}
    /\ changes = [url \in URLs |-> 0]
    /\ fn = NoCall
    /\ slack_hook_url = TRUE
    /\ noisy_messages = FALSE
    /\ posted = <<>>
    /\ polls = 0
    /\ debug = FALSE
    /\ runs = NoRuns
    /\ \E config \in Texts : parsed = [NoParse EXCEPT !.config = config]

\* The loop of task over the one article of a page: configurations = [] and
\* the append of what get_config_data gives for its text.
parse ==
    /\ ~parsed.done
    /\ LET appended == append_config_data(<<>>, parsed.config)
       IN  parsed' = [parsed EXCEPT !.done = TRUE,
                                    !.data = get_config_data(parsed.config),
                                    !.raised = appended.raised,
                                    !.configurations = appended.configurations]
    /\ UNCHANGED <<check, history, now, crashes, last, prevCheck, prevHistory, outcome, held, changes, fn, slack_hook_url, noisy_messages, posted, polls, debug, runs>>

NextParse == parse

SpecParse == InitParse /\ [][NextParse]_vars

\* ------------------------------------------------------------------ claims
\* The task that ran last: whether there is one, its url, the CheckState of
\* that url before and after it, and the HistoryEntry rows it added.
Ran == last.result # "none"
Pre == prevCheck[last.url]
Post == check[last.url]
Added == history \ prevHistory
EntriesOf(hist, url) == { h \in hist : h.url = url }
EntriesAt(hist, url, modified_time) ==
    { h \in hist : h.url = url /\ h.modified_time = modified_time }

\* C1: every (url, modified_time) a CheckState held at the start of or after a
\* reconciliation of that url has exactly one HistoryEntry.
C1_HistoryComplete ==
    \A p \in held : Cardinality(EntriesAt(history, p[1], p[2])) = 1

\* C2: reconciling a snapshot for a url without CheckState ends as 'created',
\* with the CheckState holding the snapshot and all three timestamps equal to
\* the time of the poll, and with exactly one HistoryEntry for the url: the
\* 'create' entry at that time holding the snapshot.
C2_CreateStep ==
    (Ran /\ Pre = NoRecord) =>
        /\ last.result = "created"
        /\ Post = CheckRow(last.url, url_description_of(last.url), last.current_time,
                           last.current_time, last.current_time, last.configurations)
        /\ EntriesOf(history, last.url) =
              { HistoryRow(last.url, last.current_time, CONST_CREATE_ACTION,
                           url_description_of(last.url), last.configurations) }

C2_Witness ==
    /\ last.result = "created"
    /\ Pre = NoRecord
    /\ last.configurations = <<CfgA>>
    /\ Cardinality(EntriesOf(history, last.url)) = 1

\* C3: reconciling a snapshot that does not match the stored one completes as
\* 'changed' with configurations, modified_time and last_checked_time
\* overwritten, created_time kept and a new 'update' HistoryEntry at the time
\* of the poll, whatever the store held before.
C3_ChangedStep ==
    (Ran /\ Pre # NoRecord
         /\ ~is_match_configurations(last.configurations, Pre.configurations)) =>
        /\ last.result = "changed"
        /\ Post = [Pre EXCEPT !.configurations = last.configurations,
                              !.modified_time = last.current_time,
                              !.last_checked_time = last.current_time]
        /\ HistoryRow(last.url, last.current_time, CONST_UPDATE_ACTION,
                      url_description_of(last.url), last.configurations) \in Added

\* C4: reconciling a snapshot that matches the stored one ends as 'unchanged'
\* and changes nothing of the CheckState but last_checked_time, which becomes
\* the time of the poll; also when the match was tolerant.
C4_UnchangedStep ==
    (Ran /\ Pre # NoRecord
         /\ is_match_configurations(last.configurations, Pre.configurations)) =>
        /\ last.result = "unchanged"
        /\ Post = [Pre EXCEPT !.last_checked_time = last.current_time]

C4_Witness ==
    /\ last.result = "unchanged"
    /\ last.configurations # Pre.configurations
    /\ Post.configurations = Pre.configurations
    /\ Post.last_checked_time > Pre.last_checked_time

\* The entries the backfill step of the last task added: all it added but the
\* 'update' entry a 'changed' reconciliation appends for the new state.
Backfilled ==
    IF last.result = "changed"
    THEN Added \ { HistoryRow(last.url, last.current_time, CONST_UPDATE_ACTION,
                              url_description_of(last.url), last.configurations) }
    ELSE Added

\* C5: when the existing modified_time has no HistoryEntry, the backfill adds
\* exactly one entry: 'create' at created_time when the record was never
\* updated, else 'update' at the existing modified_time.
C5_BackfillKeying ==
    (last.result \in {"unchanged", "changed"}
         /\ EntriesAt(prevHistory, last.url, Pre.modified_time) = {}) =>
        /\ Cardinality(Backfilled) = 1
        /\ \A h \in Backfilled :
              /\ h.url = last.url
              /\ IF Pre.modified_time = Pre.created_time
                 THEN h.modified_time = Pre.created_time
                      /\ h.modified_action = CONST_CREATE_ACTION
                 ELSE h.modified_time = Pre.modified_time
                      /\ h.modified_action = CONST_UPDATE_ACTION

\* C6: after a 'changed' reconciliation the history holds an entry at the
\* previous modified_time with the configurations the CheckState held before.
C6_OutgoingCaptured ==
    last.result = "changed" =>
        \E h \in EntriesAt(history, last.url, Pre.modified_time) :
            h.configurations = Pre.configurations

\* C7: an 'unchanged' reconciliation that follows an 'unchanged' one of the
\* same url, or that finds the entry of the current modified_time in place,
\* adds no HistoryEntry.
C7_IdempotentBackfill ==
    (last.result = "unchanged"
         /\ (\/ last.prior = "unchanged"
             \/ EntriesAt(prevHistory, last.url, Pre.modified_time) # {})) =>
        Added = {}

\* C8: a url that went through N 'changed' reconciliations since its initial
\* state has N+1 HistoryEntry rows, and its CheckState holds the snapshot of
\* the last 'changed' one.
C8_HistoryCount ==
    /\ \A url \in URLs :
          outcome[url] \in {"created", "unchanged", "changed"} =>
              Cardinality(EntriesOf(history, url)) = changes[url] + 1
    /\ last.result = "changed" => Post.configurations = last.configurations
    /\ last.result = "unchanged" => Post.configurations = Pre.configurations

\* C9: a poll never changes created_time, changes modified_time exactly when
\* it replaces the stored configurations, and always sets last_checked_time
\* to its own time.
C9_Timestamps ==
    Ran =>
        /\ Post.last_checked_time = last.current_time
        /\ Pre # NoRecord =>
              /\ Post.created_time = Pre.created_time
              /\ (Post.modified_time # Pre.modified_time)
                     <=> (Post.configurations # Pre.configurations)
        /\ \A url \in URLs :
              prevCheck[url] # NoRecord =>
                  check[url].created_time = prevCheck[url].created_time

C9_Witness ==
    /\ last.result = "changed"
    /\ last.prior = "unchanged"
    /\ Post.modified_time = last.current_time
    /\ Post.created_time < Post.modified_time

\* C10: a task stopped between two of its writes, started on a url whose
\* CheckState (if any) had its HistoryEntry, leaves no CheckState without the
\* entry of its modified_time and no new entry at a time the CheckState does
\* not hold.
C10_Atomic ==
    (last.result = "crashed"
         /\ (Pre = NoRecord \/ EntriesAt(prevHistory, last.url, Pre.modified_time) # {})) =>
        /\ Post # NoRecord => EntriesAt(history, last.url, Post.modified_time) # {}
        /\ \A h \in Added : Post # NoRecord /\ h.modified_time = Post.modified_time

\* The classification of section 4.2: a configuration is incomplete when one
\* of its last four fields is the Incomplete sentinel, a snapshot when one of
\* its configurations is.
DetailKeys == {"Wheels", "Interior", "Exterior", "Packages"}
IsIncompleteConfiguration(c) == \E k \in DetailKeys : c[k] = CONST_INCOMPLETE
IsIncompleteSnapshot(s) == \E i \in 1..Len(s) : IsIncompleteConfiguration(s[i])
SameHeadline(c, d) ==
    c.Vehicle = d.Vehicle /\ c.MotorBattery = d.MotorBattery /\ c.Price = d.Price

PermutationsOf(n) ==
    { p \in [1..n -> 1..n] : \A i, j \in 1..n : p[i] = p[j] => i = j }
Permuted(s, p) == [i \in 1..Len(s) |-> s[p[i]]]

\* C19 as stated: with new incomplete and current complete, matches(new,
\* current) is the same for every permutation of the configurations of new.
C19_OrderInsignificant ==
    (fn.done /\ IsIncompleteSnapshot(fn.new) /\ ~IsIncompleteSnapshot(fn.current)) =>
        \A p \in PermutationsOf(Len(fn.new)) :
            is_match_configurations(Permuted(fn.new, p), fn.current) = fn.match

\* C19 as amended: with new incomplete and current complete the comparison is
\* by position: matches(new, current) is the same when one permutation is
\* applied to both new and current.
C19_OrderByPosition ==
    (fn.done /\ IsIncompleteSnapshot(fn.new) /\ ~IsIncompleteSnapshot(fn.current)) =>
        IF Len(fn.new) # Len(fn.current) THEN ~fn.match
        ELSE \A p \in PermutationsOf(Len(fn.new)) :
                is_match_configurations(Permuted(fn.new, p), Permuted(fn.current, p))
                    = fn.match

C19_Witness ==
    /\ fn.done
    /\ fn.new = <<CfgAPartial, CfgBPartial>>
    /\ fn.current = <<CfgA, CfgB>>
    /\ fn.match
    /\ ~is_match_configurations(<<CfgBPartial, CfgAPartial>>, fn.current)
    /\ is_match_configurations(<<CfgBPartial, CfgAPartial>>, <<CfgB, CfgA>>)

\* C20: a snapshot is classified incomplete iff one of its configurations has
\* the Incomplete sentinel in one of its last four fields, whatever vehicle,
\* motor_battery and price are; the empty snapshot is complete.
C20_Classification ==
    fn.done =>
        /\ fn.new_incomplete = IsIncompleteSnapshot(fn.new)
        /\ fn.current_incomplete = IsIncompleteSnapshot(fn.current)

\* ------------------------------------------------ claims on rendering, errors
Attempts == Len(last.extracted)
IncompleteAt(n) ==
    IF last.extracted[n].none THEN FALSE
    ELSE has_incomplete_configuration(last.extracted[n].value)
Normal == {"created", "unchanged", "changed"}

\* C12: a task whose page is render-incomplete at every extraction (nothing
\* rendered, or entries lacking their details) makes exactly 3 extraction
\* attempts and ends as a failure that leaves both tables as they were.
C12_RenderFailure ==
    (Ran /\ last.render_incomplete) =>
        /\ Attempts = MaxReloads
        /\ last.result = "failed"
        /\ check = prevCheck
        /\ history = prevHistory

\* C13: an extraction attempt other than the third that yields a snapshot
\* with an incomplete configuration is followed by a later attempt, and a
\* snapshot with an incomplete configuration is reconciled only when it is
\* the one of the third attempt.
C13_RetryOnIncomplete ==
    Ran =>
        /\ \A n \in 1..Attempts : (n < MaxReloads /\ IncompleteAt(n)) => Attempts > n
        /\ (last.reconciled /\ has_incomplete_configuration(last.configurations))
              => Attempts = MaxReloads

\* C14: a render failure with a hook url set hands exactly one message to the
\* notifier, with the failure status and no configurations, and the
\* reconciliation is not reached.
C14_FailureEvent ==
    (last.result = "failed" /\ slack_hook_url) =>
        /\ Len(posted) = 1
        /\ posted[1].status_code = 500
        /\ posted[1].configurations = None
        /\ ~last.reconciled

\* C15: an extraction that finds the "No exact matches" text and no entries is
\* the last one, its empty snapshot is reconciled and the CheckState of the
\* url holds the empty snapshot afterwards; a task leaves the CheckState of
\* its url as it was only when it ends as a render failure.
C15_ConfirmedEmpty ==
    Ran =>
        /\ \A n \in 1..Attempts :
              last.shown[n] = NoExactMatches =>
                  /\ n = Attempts
                  /\ last.reconciled
                  /\ last.configurations = <<>>
                  /\ check[last.url] # NoRecord
                  /\ check[last.url].configurations = <<>>
                  /\ check[last.url].last_checked_time = last.current_time
        /\ last.result = "failed" => check = prevCheck
        /\ check[last.url] = prevCheck[last.url] => last.result = "failed"

C15_Witness ==
    /\ Ran
    /\ Attempts = 2
    /\ last.shown[2] = NoExactMatches
    /\ last.result = "changed"
    /\ prevCheck[last.url].configurations = <<CfgA>>

\* C16: a task in which an insert hit a taken (url, modified_time) key of the
\* history still ends with a result code and without an exception.
C16_ConflictNoOp ==
    (Ran /\ last.conflicts > 0) =>
        /\ last.result \in Normal
        /\ ~last.raised
        /\ prevHistory \subseteq history

\* C17: a task ended by a failed store operation is not reported as unchanged
\* and its exception reaches the caller of handler.
C17_StoreFailureSurfaced ==
    (Ran /\ last.result = "error") =>
        /\ outcome[last.url] # "unchanged"
        /\ last.surfaced

\* C11: no two tasks that have read the CheckState of the same url and not
\* yet returned exist at the same time, in one run or in two.
C11_OneInFlight ==
    \A t1 \in InFlight, t2 \in InFlight : t1.url = t2.url => t1 = t2

\* C24: for snapshots of equal length of which the new one or the current one
\* has an "Incomplete" value, the result is whether Vehicle, MotorBattery and
\* Price agree at every position; the full comparison is made only when
\* neither has one.
C24_TwoSidedTolerance ==
    (/\ fn.done
     /\ Len(fn.new) = Len(fn.current)
     /\ (fn.new_incomplete \/ fn.current_incomplete)) =>
        fn.match = \A i \in 1..Len(fn.new) : SameHeadline(fn.new[i], fn.current[i])

\* C21: every step keeps the entries the history had, field by field, and
\* the entries it adds are those of a task that reached the reconciliation,
\* for the url of that task, with the create or the update action.
C21_AppendOnly ==
    /\ prevHistory \subseteq history
    /\ \A h \in Added :
          /\ last.reconciled
          /\ h.url = last.url
          /\ h.modified_action \in {CONST_CREATE_ACTION, CONST_UPDATE_ACTION}

C21_Witness ==
    /\ Ran
    /\ Added # {}
    /\ \E h \in prevHistory : h.url = last.url /\ h \in history

\* The tables with the rows of url only, as they were before the last task.
AloneCheck(url) == [u \in URLs |-> IF u = url THEN prevCheck[u] ELSE NoRecord]
Alone ==
    reconcile(Begin(AloneCheck(last.url), EntriesOf(prevHistory, last.url), -1),
              last.url, url_description_of(last.url), last.configurations,
              last.current_time)

\* C22: a task leaves the CheckState and the HistoryEntry rows of every other
\* url as they were, also while tasks of other urls are in flight, and what
\* it does to the rows of its own url and its result are those of the same
\* task on tables that hold the rows of its url only.
C22_Independence ==
    Ran =>
        /\ \A url \in URLs \ {last.url} :
              /\ check[url] = prevCheck[url]
              /\ EntriesOf(history, url) = EntriesOf(prevHistory, url)
        /\ (last.reconciled /\ ~debug) =>
              /\ Alone.check[last.url] = check[last.url]
              /\ Alone.history = EntriesOf(history, last.url)
              /\ result_of(Alone, branch(prevCheck, last.url, last.configurations))
                    = last.result

C22_Witness ==
    /\ Ran
    /\ ~debug
    /\ last.reconciled
    /\ Added # {}
    /\ \E t \in InFlight :
          /\ t.url # last.url
          /\ EntriesOf(prevHistory, t.url) # {}

\* C25: a HistoryEntry whose key is the url and the modified_time of the
\* CheckState of that url holds the configurations of that CheckState.
C25_HistoryMirrors ==
    \A url \in URLs :
        check[url] # NoRecord =>
            \A h \in EntriesAt(history, url, check[url].modified_time) :
                h.configurations = check[url].configurations

\* C26: a task that reconciles, for the url of the task before it, the
\* snapshot that task reconciled ends as "unchanged" and leaves the
\* configurations and the modified_time of the CheckState as they were
\* (both tasks having returned, with a result code or an exception).
C26_Converges ==
    [][ (/\ Ran
         /\ last.reconciled
         /\ last.result # "crashed"
         /\ now' # now
         /\ last'.reconciled
         /\ last'.result # "crashed"
         /\ last'.url = last.url
         /\ last'.configurations = last.configurations) =>
            /\ last'.result = "unchanged"
            /\ check'[last.url].configurations = check[last.url].configurations
            /\ check'[last.url].modified_time = check[last.url].modified_time ]_vars

C26_Witness ==
    /\ last.result = "unchanged"
    /\ last.prior = "changed"
    /\ Pre.configurations = last.configurations
    /\ Pre.last_checked_time = Pre.modified_time
    /\ Pre.modified_time = last.current_time - 1

\* C27: with a hook url set, a changed task posts exactly one message, an
\* unchanged task one exactly when noisy_messages is on, a created task one
\* exactly when its snapshot is non-empty or noisy_messages is on; a task
\* that posted has made all its writes: it ended with a result code, the
\* CheckState carries its time, and the entry of a create or a change is in
\* the history.
C27_NotificationPolicy ==
    (Ran /\ slack_hook_url) =>
        /\ last.result = "changed" => Len(posted) = 1
        /\ last.result = "unchanged" =>
              Len(posted) = IF noisy_messages THEN 1 ELSE 0
        /\ last.result = "created" =>
              Len(posted) = IF Len(last.configurations) > 0 \/ noisy_messages
                            THEN 1 ELSE 0
        /\ Len(posted) > 0 =>
              /\ last.result \in Normal
              /\ posted[1].configurations = Some(last.configurations)
              /\ posted[1].status_code = IF last.result = "created" THEN 201 ELSE 200
              /\ Post # NoRecord
              /\ Post.last_checked_time = last.current_time
              /\ last.result \in {"created", "changed"} =>
                    /\ Post.configurations = last.configurations
                    /\ EntriesAt(history, last.url, last.current_time) # {}

C27_Witness ==
    /\ slack_hook_url
    /\ noisy_messages
    /\ last.result = "created"
    /\ last.configurations = <<>>
    /\ Len(posted) = 1

\* The places of a text where a lowercase character is followed by an
\* uppercase letter, a digit or "$".
Transitions(config) ==
    { i \in 1..(Len(config) - 1) :
        config[i] \in {"a", "hp", "+More"} /\ config[i + 1] \in {"A", "1", "$"} }

\* C23: for a text without a transition get_config_data returns None, raising
\* nothing and giving no dict, and the list the caller builds does not hold it.
C23_ParserNull ==
    (parsed.done /\ Transitions(parsed.config) = {}) =>
        /\ ~parsed.data.raised
        /\ parsed.data.none
        /\ ~parsed.raised
        /\ parsed.configurations = <<>>
====
